---- MODULE Spec2Model ----
(***************************************************************************)
(* Model of the test-declaration and execution core of the WebGPU CTS      *)
(* (common/framework/test_group.ts): TestGroup, TestBuilder and            *)
(* RunCaseSpecific.  The execution protocol of one Run Case (run/runTest)  *)
(* is modelled step by step, one action per await point or Recorder call;  *)
(* the fixture, the test body and the subcase generator are callbacks      *)
(* whose outcomes are nondeterministic inputs.                             *)
(***************************************************************************)
EXTENDS Integers, Sequences, FiniteSets, TLC

(***************************************************************************)
(* Bounds of the model.                                                    *)
(***************************************************************************)
\* largest number of subcases the subcase generator yields in one run
MaxSubcases == 2
\* longest test name (in characters) passed to TestGroup.test
MaxNameLen == 3
\* largest number of names TestGroup.checkName records in one group
MaxNames == 2
\* longest sequence of case records passed to TestBuilder.cases
MaxCases == 2

VARIABLES
  \* ---- one execution of RunCaseSpecific.run(rec) ----
  pc,           \* position in run / runTest
  subParamGen,  \* RunCaseSpecific.subParamGen is defined (TRUE) or undefined
  fn,           \* the body: "user" (TestBuilder.fn) or "unimplemented"
  throwSkip,    \* parameter of the runTest call in progress
  ex,           \* exception in flight in runTest/run: "none", "error", "skip"
  totalCount,   \* local of run
  skipCount,    \* local of run
  yielded,      \* number of subcases the generator has yielded so far
  calls,        \* the Recorder calls made so far, in order: <<method, argument>>
  cur,          \* steps of the trial in progress: <<step, outcome>>
  trials,       \* the step lists of the trials that have ended, in order
  escaped,      \* what propagated out of run(): "none", "gen", "error", "skip"
  \* ---- one TestGroup ----
  seen,         \* TestGroup.seen
  tests,        \* TestGroup.tests: the testPath of each TestBuilder, in order
  lastError,    \* the assertion the last call on the group or on a builder
                \* failed on, or "none"
  builders,     \* TestGroup.tests: the fields of each TestBuilder, in order
  failedAt,     \* TestGroup.validate: -1 not called yet, 0 returned, k > 0 the
                \* declaration whose validate() threw
  runCases      \* the Run Cases the last iterate() of a builder yielded

runVars == <<pc, subParamGen, fn, throwSkip, ex, totalCount, skipCount,
             yielded, calls, cur, trials, escaped>>
groupVars == <<seen, tests, lastError, builders, failedAt, runCases>>
vars == <<pc, subParamGen, fn, throwSkip, ex, totalCount, skipCount,
          yielded, calls, cur, trials, escaped, seen, tests, lastError,
          builders, failedAt, runCases>>

\* what a callback (constructor, init, body, finalize) can do
Outcomes == {"ok", "error", "skip"}

(***************************************************************************)
(* The Recorder.  Its calls are logged as made by run/runTest.             *)
(***************************************************************************)
rec_call(log, method, arg) == Append(log, <<method, arg>>)

\* The event the Recorder records for a call: threw() given the Skip signal
\* records a skip, every other call records an event of its own kind.
RecorderEvent(call) ==
  IF call[1] = "threw" /\ call[2] = "skip" THEN "skipped" ELSE call[1]

RecorderEvents(log) == [i \in 1..Len(log) |-> RecorderEvent(log[i])]

(***************************************************************************)
(* RunCaseSpecific.runTest                                                 *)
(***************************************************************************)
\* where control goes when runTest returns normally to run
AfterReturn(gen) == IF gen THEN "count" ELSE "finish"

\* where control goes when runTest throws into run: the call in the subcase
\* loop is inside a try, the call of the no-subcase branch is not
AfterThrow(gen) == IF gen THEN "runcatch" ELSE "aborted"

\* runTest_construct that constructs a fixture only for the first trial of a
\* run and reuses it for the later ones
runTest_construct_shared ==
  /\ pc = "construct"
  /\ IF trials # <<>>
       THEN /\ pc' = "init"
            /\ UNCHANGED <<cur, ex>>
       ELSE \E o \in Outcomes :
              /\ cur' = Append(cur, <<"construct", o>>)
              /\ IF o = "ok"
                   THEN /\ pc' = "init"
                        /\ ex' = ex
                   ELSE /\ pc' = "catch"
                        /\ ex' = o
  /\ UNCHANGED <<subParamGen, fn, throwSkip, totalCount, skipCount, yielded,
                 calls, trials, escaped>>
  /\ UNCHANGED groupVars

\* const inst = new this.fixture(rec, params)
runTest_construct ==
  /\ pc = "construct"
  /\ \E o \in Outcomes :
       /\ cur' = Append(cur, <<"construct", o>>)
       /\ IF o = "ok"
            THEN /\ pc' = "init"
                 /\ ex' = ex
            ELSE /\ pc' = "catch"
                 /\ ex' = o
  /\ UNCHANGED <<subParamGen, fn, throwSkip, totalCount, skipCount, yielded,
                 calls, trials, escaped>>
  /\ UNCHANGED groupVars

\* runTest_init that goes on to the body although init() threw
runTest_init_bodyAfterThrow ==
  /\ pc = "init"
  /\ \E o \in Outcomes :
       /\ cur' = Append(cur, <<"init", o>>)
       /\ ex' = IF o = "ok" THEN ex ELSE o
  /\ pc' = "fn"
  /\ UNCHANGED <<subParamGen, fn, throwSkip, totalCount, skipCount, yielded,
                 calls, trials, escaped>>
  /\ UNCHANGED groupVars

\* runTest_init with the finally block lost: a throw of init() goes straight to
\* the catch
runTest_init_nofinally ==
  /\ pc = "init"
  /\ \E o \in Outcomes :
       /\ cur' = Append(cur, <<"init", o>>)
       /\ IF o = "ok"
            THEN /\ pc' = "fn"
                 /\ ex' = ex
            ELSE /\ pc' = "catch"
                 /\ ex' = o
  /\ UNCHANGED <<subParamGen, fn, throwSkip, totalCount, skipCount, yielded,
                 calls, trials, escaped>>
  /\ UNCHANGED groupVars

\* await inst.init(): a throw skips the body and enters the finally block
runTest_init ==
  /\ pc = "init"
  /\ \E o \in Outcomes :
       /\ cur' = Append(cur, <<"init", o>>)
       /\ IF o = "ok"
            THEN /\ pc' = "fn"
                 /\ ex' = ex
            ELSE /\ pc' = "finalize"
                 /\ ex' = o
  /\ UNCHANGED <<subParamGen, fn, throwSkip, totalCount, skipCount, yielded,
                 calls, trials, escaped>>
  /\ UNCHANGED groupVars

\* what the body can do: the body attached by unimplemented() only throws
\* SkipTestCase
FnOutcomes(f) == IF f = "unimplemented" THEN {"skip"} ELSE Outcomes

\* await this.fn(inst)
runTest_fn ==
  /\ pc = "fn"
  /\ \E o \in FnOutcomes(fn) :
       /\ cur' = Append(cur, <<"fn", o>>)
       /\ ex' = IF o = "ok" THEN ex ELSE o
  /\ pc' = "finalize"
  /\ UNCHANGED <<subParamGen, fn, throwSkip, totalCount, skipCount, yielded,
                 calls, trials, escaped>>
  /\ UNCHANGED groupVars

\* runTest_finalize where the exception already in flight wins over the one
\* finalize() raises
runTest_finalize_keepsFirst ==
  /\ pc = "finalize"
  /\ \E o \in Outcomes :
       LET e == IF ex # "none" THEN ex ELSE IF o = "ok" THEN "none" ELSE o IN
       /\ ex' = e
       /\ IF e = "none"
            THEN /\ pc' = AfterReturn(subParamGen)
                 /\ trials' = Append(trials, Append(cur, <<"finalize", o>>))
                 /\ cur' = <<>>
            ELSE /\ pc' = "catch"
                 /\ cur' = Append(cur, <<"finalize", o>>)
                 /\ trials' = trials
  /\ UNCHANGED <<subParamGen, fn, throwSkip, totalCount, skipCount, yielded,
                 calls, escaped>>
  /\ UNCHANGED groupVars

\* finally { await inst.finalize() }: an exception of finalize replaces the
\* one in flight; otherwise the one in flight continues to the catch
runTest_finalize ==
  /\ pc = "finalize"
  /\ \E o \in Outcomes :
       LET e == IF o = "ok" THEN ex ELSE o IN
       /\ ex' = e
       /\ IF e = "none"
            THEN /\ pc' = AfterReturn(subParamGen)
                 /\ trials' = Append(trials, Append(cur, <<"finalize", o>>))
                 /\ cur' = <<>>
            ELSE /\ pc' = "catch"
                 /\ cur' = Append(cur, <<"finalize", o>>)
                 /\ trials' = trials
  /\ UNCHANGED <<subParamGen, fn, throwSkip, totalCount, skipCount, yielded,
                 calls, escaped>>
  /\ UNCHANGED groupVars

\* runTest_catch that rethrows the Skip signal whatever throwSkip says
runTest_catch_alwaysThrowSkip ==
  /\ pc = "catch"
  /\ IF ex = "skip"
       THEN /\ pc' = AfterThrow(subParamGen)
            /\ escaped' = IF subParamGen THEN escaped ELSE ex
            /\ UNCHANGED <<calls, ex>>
       ELSE /\ calls' = rec_call(calls, "threw", ex)
            /\ ex' = "none"
            /\ pc' = AfterReturn(subParamGen)
            /\ UNCHANGED escaped
  /\ trials' = Append(trials, cur)
  /\ cur' = <<>>
  /\ UNCHANGED <<subParamGen, fn, throwSkip, totalCount, skipCount, yielded>>
  /\ UNCHANGED groupVars

\* runTest_catch with the throwSkip test inverted
runTest_catch_invertedFlag ==
  /\ pc = "catch"
  /\ IF ~throwSkip /\ ex = "skip"
       THEN /\ pc' = AfterThrow(subParamGen)
            /\ escaped' = IF subParamGen THEN escaped ELSE ex
            /\ UNCHANGED <<calls, ex>>
       ELSE /\ calls' = rec_call(calls, "threw", ex)
            /\ ex' = "none"
            /\ pc' = AfterReturn(subParamGen)
            /\ UNCHANGED escaped
  /\ trials' = Append(trials, cur)
  /\ cur' = <<>>
  /\ UNCHANGED <<subParamGen, fn, throwSkip, totalCount, skipCount, yielded>>
  /\ UNCHANGED groupVars

\* runTest_catch that reports an ordinary exception and then rethrows it
runTest_catch_reportAndThrow ==
  /\ pc = "catch"
  /\ IF throwSkip /\ ex = "skip"
       THEN /\ pc' = AfterThrow(subParamGen)
            /\ escaped' = IF subParamGen THEN escaped ELSE ex
            /\ UNCHANGED <<calls, ex>>
       ELSE /\ calls' = rec_call(calls, "threw", ex)
            /\ pc' = AfterThrow(subParamGen)
            /\ escaped' = IF subParamGen THEN escaped ELSE ex
            /\ UNCHANGED ex
  /\ trials' = Append(trials, cur)
  /\ cur' = <<>>
  /\ UNCHANGED <<subParamGen, fn, throwSkip, totalCount, skipCount, yielded>>
  /\ UNCHANGED groupVars

\* catch (ex) { if (throwSkip && ex instanceof SkipTestCase) throw ex;
\*              rec.threw(ex); }
runTest_catch ==
  /\ pc = "catch"
  /\ IF throwSkip /\ ex = "skip"
       THEN /\ pc' = AfterThrow(subParamGen)
            /\ escaped' = IF subParamGen THEN escaped ELSE ex
            /\ UNCHANGED <<calls, ex>>
       ELSE /\ calls' = rec_call(calls, "threw", ex)
            /\ ex' = "none"
            /\ pc' = AfterReturn(subParamGen)
            /\ UNCHANGED escaped
  /\ trials' = Append(trials, cur)
  /\ cur' = <<>>
  /\ UNCHANGED <<subParamGen, fn, throwSkip, totalCount, skipCount, yielded>>
  /\ UNCHANGED groupVars

(***************************************************************************)
(* RunCaseSpecific.run                                                     *)
(***************************************************************************)
\* rec.start(); then the subcase loop is entered with both counters 0, or
\* runTest(rec, this.params, false) is called
run_start ==
  /\ pc = "start"
  /\ calls' = rec_call(calls, "start", "none")
  /\ IF subParamGen
       THEN /\ pc' = "gen"
            /\ throwSkip' = throwSkip
       ELSE /\ pc' = "construct"
            /\ throwSkip' = FALSE
  /\ totalCount' = 0
  /\ skipCount' = 0
  /\ UNCHANGED <<subParamGen, fn, ex, yielded, cur, trials, escaped>>
  /\ UNCHANGED groupVars

\* for (const subParams of this.subParamGen(this.params)): the generator
\* yields another subcase, is exhausted, or throws; the loop is in no try
subParamGen_next ==
  /\ pc = "gen"
  /\ \/ /\ yielded < MaxSubcases
        /\ yielded' = yielded + 1
        /\ pc' = "info"
        /\ UNCHANGED escaped
     \/ /\ pc' = "check"
        /\ UNCHANGED <<yielded, escaped>>
     \/ /\ pc' = "aborted"
        /\ escaped' = "gen"
        /\ UNCHANGED yielded
  /\ UNCHANGED <<subParamGen, fn, throwSkip, ex, totalCount, skipCount,
                 calls, cur, trials>>
  /\ UNCHANGED groupVars

\* run_info that starts the trial without the informational note
run_info_noInfo ==
  /\ pc = "info"
  /\ throwSkip' = TRUE
  /\ pc' = "construct"
  /\ UNCHANGED <<subParamGen, fn, ex, totalCount, skipCount, yielded,
                 calls, cur, trials, escaped>>
  /\ UNCHANGED groupVars

\* rec.info(new Error('subcase: ...')); runTest(rec, mergeParams(...), true)
run_info ==
  /\ pc = "info"
  /\ calls' = rec_call(calls, "info", "none")
  /\ throwSkip' = TRUE
  /\ pc' = "construct"
  /\ UNCHANGED <<subParamGen, fn, ex, totalCount, skipCount, yielded,
                 cur, trials, escaped>>
  /\ UNCHANGED groupVars

\* run_catch that forgets ++skipCount
run_catch_noSkipCount ==
  /\ pc = "runcatch"
  /\ IF ex = "skip"
       THEN calls' = rec_call(calls, "debug", ex)
       ELSE calls' = rec_call(calls, "threw", ex)
  /\ skipCount' = skipCount
  /\ ex' = "none"
  /\ pc' = "count"
  /\ UNCHANGED <<subParamGen, fn, throwSkip, totalCount, yielded,
                 cur, trials, escaped>>
  /\ UNCHANGED groupVars

\* catch (ex) of the subcase loop
run_catch ==
  /\ pc = "runcatch"
  /\ IF ex = "skip"
       THEN /\ calls' = rec_call(calls, "debug", ex)
            /\ skipCount' = skipCount + 1
       ELSE /\ calls' = rec_call(calls, "threw", ex)
            /\ skipCount' = skipCount
  /\ ex' = "none"
  /\ pc' = "count"
  /\ UNCHANGED <<subParamGen, fn, throwSkip, totalCount, yielded,
                 cur, trials, escaped>>
  /\ UNCHANGED groupVars

\* ++totalCount
run_count ==
  /\ pc = "count"
  /\ totalCount' = totalCount + 1
  /\ pc' = "gen"
  /\ UNCHANGED <<subParamGen, fn, throwSkip, ex, skipCount, yielded,
                 calls, cur, trials, escaped>>
  /\ UNCHANGED groupVars

\* AllSkipped that asks only whether some subcase was skipped
AllSkipped_some(skip, total) == skip > 0

\* the condition of the case-level skip
AllSkipped(skip, total) == skip = total

\* if (skipCount === totalCount) rec.skipped(...)
run_checkSkipped ==
  /\ pc = "check"
  /\ calls' = IF AllSkipped(skipCount, totalCount)
                THEN rec_call(calls, "skipped", "skip")
                ELSE calls
  /\ pc' = "finish"
  /\ UNCHANGED <<subParamGen, fn, throwSkip, ex, totalCount, skipCount,
                 yielded, cur, trials, escaped>>
  /\ UNCHANGED groupVars

\* rec.finish()
run_finish ==
  /\ pc = "finish"
  /\ calls' = rec_call(calls, "finish", "none")
  /\ pc' = "done"
  /\ UNCHANGED <<subParamGen, fn, throwSkip, ex, totalCount, skipCount,
                 yielded, cur, trials, escaped>>
  /\ UNCHANGED groupVars

\* a group on which nothing has been declared
GroupInit ==
  /\ seen = {}
  /\ tests = <<>>
  /\ lastError = "none"
  /\ builders = <<>>
  /\ failedAt = -1
  /\ runCases = [of |-> 0, list |-> <<>>]

\* a Run Case as TestBuilder.iterate constructs it, before run() is called
Init ==
  /\ pc = "start"
  /\ subParamGen \in BOOLEAN
  /\ fn \in {"user", "unimplemented"}
  /\ throwSkip = FALSE
  /\ ex = "none"
  /\ totalCount = 0
  /\ skipCount = 0
  /\ yielded = 0
  /\ calls = <<>>
  /\ cur = <<>>
  /\ trials = <<>>
  /\ escaped = "none"
  /\ GroupInit

Next ==
  \/ run_start
  \/ subParamGen_next
  \/ run_info
  \/ runTest_construct
  \/ runTest_init
  \/ runTest_fn
  \/ runTest_finalize
  \/ runTest_catch
  \/ run_catch
  \/ run_count
  \/ run_checkSkipped
  \/ run_finish

Spec == Init /\ [][Next]_vars

(***************************************************************************)
(* Test names.  A name is a sequence of characters (one-character strings). *)
(***************************************************************************)
\* the characters names are drawn from: a name character, the path separator
\* and the percent sign ("%22" is the percent-encoding of the double quote)
Alphabet == {"2", ",", "%"}

Names == UNION {[1..n -> Alphabet] : n \in 0..MaxNameLen}

\* the path separator token
kPathSeparator == ","

\* the printable ASCII characters, from code 32 to code 126 (the grave accent,
\* code 96, is written <grave>)
Printable ==
  <<
     " ", "!", "\"", "#", "$", "%", "&", "'", "(", ")", "*", "+",
     ",", "-", ".", "/", "0", "1", "2", "3", "4", "5", "6", "7",
     "8", "9", ":", ";", "<", "=", ">", "?", "@", "A", "B", "C",
     "D", "E", "F", "G", "H", "I", "J", "K", "L", "M", "N", "O",
     "P", "Q", "R", "S", "T", "U", "V", "W", "X", "Y", "Z", "[",
     "\\", "]", "^", "_", "<grave>", "a", "b", "c", "d", "e", "f", "g",
     "h", "i", "j", "k", "l", "m", "n", "o", "p", "q", "r", "s",
     "t", "u", "v", "w", "x", "y", "z", "{", "|", "}", "~"
  >>

HexLower == <<"0", "1", "2", "3", "4", "5", "6", "7", "8", "9",
              "a", "b", "c", "d", "e", "f">>
HexUpper == <<"0", "1", "2", "3", "4", "5", "6", "7", "8", "9",
              "A", "B", "C", "D", "E", "F">>

IsHex(c) == \E i \in 1..16 : HexLower[i] = c \/ HexUpper[i] = c

HexVal(c) == (CHOOSE i \in 1..16 : HexLower[i] = c \/ HexUpper[i] = c) - 1

\* the character of an ASCII code; control characters are not told apart
FromCharCode(b) ==
  IF b >= 32 /\ b <= 126 THEN Printable[b - 31] ELSE "<control>"

\* the octet written as "%XX" at position i of s, or -1 if there is none
OctetAt(s, i) ==
  IF i + 2 <= Len(s) /\ s[i] = "%" /\ IsHex(s[i + 1]) /\ IsHex(s[i + 2])
    THEN 16 * HexVal(s[i + 1]) + HexVal(s[i + 2])
    ELSE -1

\* number of continuation octets a UTF-8 lead octet asks for, -1 if the octet
\* cannot start a character
Continuations(b) ==
  IF b < 128 THEN 0
  ELSE IF b >= 194 /\ b <= 223 THEN 1
  ELSE IF b >= 224 /\ b <= 239 THEN 2
  ELSE IF b >= 240 /\ b <= 244 THEN 3
  ELSE -1

RECURSIVE DecodeFrom(_, _)
\* decodeURIComponent from position i on: [ok |-> FALSE] stands for the
\* URIError thrown on a malformed escape sequence.  The restrictions of UTF-8
\* on particular lead/continuation pairs (overlong forms, surrogates) are
\* not modelled.
DecodeFrom(s, i) ==
  IF i > Len(s) THEN [ok |-> TRUE, str |-> <<>>]
  ELSE IF s[i] # "%"
    THEN LET r == DecodeFrom(s, i + 1) IN
         [ok |-> r.ok, str |-> <<s[i]>> \o r.str]
  ELSE
    LET b == OctetAt(s, i)
        n == IF b < 0 THEN -1 ELSE Continuations(b)
    IN
    IF n < 0 THEN [ok |-> FALSE, str |-> <<>>]
    ELSE IF \E k \in 1..n : LET c == OctetAt(s, i + 3 * k) IN c < 128 \/ c > 191
      THEN [ok |-> FALSE, str |-> <<>>]
    ELSE
      LET r == DecodeFrom(s, i + 3 + 3 * n) IN
      [ok |-> r.ok,
       str |-> <<IF n = 0 THEN FromCharCode(b) ELSE "<non-ascii>">> \o r.str]

decodeURIComponent(s) == DecodeFrom(s, 1)

RECURSIVE split(_, _)
\* String.prototype.split with a one-character separator
split(s, sep) ==
  IF \A i \in 1..Len(s) : s[i] # sep THEN <<s>>
  ELSE
    LET i == CHOOSE k \in 1..Len(s) :
               s[k] = sep /\ \A j \in 1..(k - 1) : s[j] # sep
    IN <<SubSeq(s, 1, i - 1)>> \o split(SubSeq(s, i + 1, Len(s)), sep)

RECURSIVE join(_, _)
\* Array.prototype.join
join(parts, sep) ==
  IF Len(parts) = 0 THEN <<>>
  ELSE IF Len(parts) = 1 THEN parts[1]
  ELSE parts[1] \o <<sep>> \o join(Tail(parts), sep)

\* a legal path segment: not empty, printable, free of the path separator
validQueryPart(p) ==
  /\ p # <<>>
  /\ \A i \in 1..Len(p) :
       /\ p[i] # kPathSeparator
       /\ \E k \in 1..Len(Printable) : Printable[k] = p[i]

(***************************************************************************)
(* TestBuilder: the fields of one declaration                              *)
(***************************************************************************)
\* a TestBuilder as its constructor leaves it: testFn, caseParams,
\* subcaseParams and description undefined
NewTestBuilder ==
  [testFn |-> "undefined",
   caseParams |-> [defined |-> FALSE, list |-> <<>>],
   subcaseParams |-> "undefined",
   description |-> [defined |-> FALSE, text |-> <<>>]]

(***************************************************************************)
(* TestGroup                                                               *)
(***************************************************************************)
\* checkName without the test of decodeURIComponent
checkName_noDecodeTest(s, name) ==
  IF name \in s THEN [error |-> "Duplicate test name", seen |-> s]
  ELSE [error |-> "none", seen |-> s \cup {name}]

\* checkName without the test of this.seen
checkName_noDuplicateTest(s, name) ==
  LET d == decodeURIComponent(name) IN
  IF ~d.ok THEN [error |-> "URIError", seen |-> s]
  ELSE IF name # d.str
    THEN [error |-> "Not decodeURIComponent-idempotent", seen |-> s]
  ELSE [error |-> "none", seen |-> s \cup {name}]

\* TestGroup.checkName(name) on the set s: the assertion that failed
\* ("none" if none did) and this.seen afterwards
checkName(s, name) ==
  LET d == decodeURIComponent(name) IN
  IF ~d.ok THEN [error |-> "URIError", seen |-> s]
  ELSE IF name # d.str
    THEN [error |-> "Not decodeURIComponent-idempotent", seen |-> s]
  ELSE IF name \in s THEN [error |-> "Duplicate test name", seen |-> s]
  ELSE [error |-> "none", seen |-> s \cup {name}]

\* TestGroup.test(name)
test(name) ==
  LET r == checkName(seen, name)
      parts == split(name, kPathSeparator)
  IN
  /\ Cardinality(r.seen) <= MaxNames
  /\ seen' = r.seen
  /\ IF r.error # "none"
       THEN /\ lastError' = r.error
            /\ tests' = tests
       ELSE IF \E i \in 1..Len(parts) : ~validQueryPart(parts[i])
         THEN /\ lastError' = "Invalid test name part"
              /\ tests' = tests
         ELSE /\ lastError' = "none"
              /\ tests' = Append(tests, parts)
  /\ builders' = IF Len(tests') > Len(builders)
                   THEN Append(builders, NewTestBuilder)
                   ELSE builders
  /\ UNCHANGED <<failedAt, runCases>>
  /\ UNCHANGED runVars

\* no Run Case is being executed
RunIdle ==
  /\ pc = "start"
  /\ subParamGen = FALSE
  /\ fn = "user"
  /\ throwSkip = FALSE
  /\ ex = "none"
  /\ totalCount = 0
  /\ skipCount = 0
  /\ yielded = 0
  /\ calls = <<>>
  /\ cur = <<>>
  /\ trials = <<>>
  /\ escaped = "none"

\* a group as its constructor leaves it; no Run Case is being executed
InitGroup ==
  /\ RunIdle
  /\ GroupInit

NextGroup == \E name \in Names : test(name)

SpecGroup == InitGroup /\ [][NextGroup]_vars

(***************************************************************************)
(* Parameter records.  A record is the set of its <<key, value>> pairs.    *)
(***************************************************************************)
\* the case records cases() is given: two that differ in a private key only,
\* one with another public value, one whose public value is not a legal
\* parameter value
CaseRecords ==
  { {<<"x", "1">>, <<"_p", "0">>},
    {<<"x", "1">>, <<"_p", "1">>},
    {<<"x", "2">>},
    {<<"x", "<invalid>">>} }

CaseSeqs == UNION {[1..n -> CaseRecords] : n \in 0..MaxCases}

\* the case lists without private keys and invalid values
PlainCaseSeqs ==
  UNION {[1..n -> {{<<"x", "1">>}, {<<"x", "2">>}}] : n \in 0..MaxCases}

\* keys that are left out of the public view of a record
PrivateKeys == {"_p"}

paramKeyIsPublic(k) == k \notin PrivateKeys

\* the public view of a record
extractPublicParams(p) == {kv \in p : paramKeyIsPublic(kv[1])}

\* the unique-key rendering of a record: a canonical form of its public view
stringifyPublicParamsUniquely(p) == extractPublicParams(p)

\* the human-readable rendering of a record; it throws ([ok |-> FALSE]) on a
\* record with an invalid parameter value
stringifyPublicParams(p) ==
  IF \E kv \in extractPublicParams(p) : kv[2] = "<invalid>"
    THEN [ok |-> FALSE, str |-> {}]
    ELSE [ok |-> TRUE, str |-> extractPublicParams(p)]

\* the test bodies, subcase generators and descriptions the builder is given
Fns == {"f1", "f2"}
SubcaseGens == {"g1", "g2"}
DescTexts == {<<" ", "d", " ">>, <<" ">>}

RECURSIVE trim(_)
\* String.prototype.trim on a sequence of characters
trim(t) ==
  IF t = <<>> THEN t
  ELSE IF Head(t) = " " THEN trim(Tail(t))
  ELSE IF t[Len(t)] = " " THEN trim(SubSeq(t, 1, Len(t) - 1))
  ELSE t

(***************************************************************************)
(* TestBuilder                                                             *)
(***************************************************************************)
\* desc(description)
builder_desc(i, text) ==
  /\ builders' = [builders EXCEPT
                    ![i].description = [defined |-> TRUE, text |-> trim(text)]]
  /\ lastError' = "none"
  /\ UNCHANGED <<seen, tests, failedAt, runCases>>
  /\ UNCHANGED runVars

\* fn(fn) without the assertion
builder_fn_overwrite(i, f) ==
  /\ builders' = [builders EXCEPT ![i].testFn = f]
  /\ lastError' = "none"
  /\ UNCHANGED <<seen, tests, failedAt, runCases>>
  /\ UNCHANGED runVars

\* fn(fn)
builder_fn(i, f) ==
  /\ IF builders[i].testFn # "undefined"
       THEN /\ lastError' = "assert(this.testFn === undefined)"
            /\ builders' = builders
       ELSE /\ lastError' = "none"
            /\ builders' = [builders EXCEPT ![i].testFn = f]
  /\ UNCHANGED <<seen, tests, failedAt, runCases>>
  /\ UNCHANGED runVars

\* unimplemented()
builder_unimplemented(i) ==
  /\ IF builders[i].testFn # "undefined"
       THEN /\ lastError' = "assert(this.testFn === undefined)"
            /\ builders' = builders
       ELSE LET d == builders[i].description
                before == IF d.defined /\ d.text # <<>>
                            THEN d.text \o <<"\n\n">>
                            ELSE <<>>
            IN
            /\ lastError' = "none"
            /\ builders' =
                 [builders EXCEPT
                    ![i].description =
                       [defined |-> TRUE,
                        text |-> before \o <<"TODO: .unimplemented()">>],
                    ![i].testFn = "unimplemented"]
  /\ UNCHANGED <<seen, tests, failedAt, runCases>>
  /\ UNCHANGED runVars

\* cases(casesIterable): Array.from keeps the records in their order
builder_cases(i, cs) ==
  /\ IF builders[i].caseParams.defined
       THEN /\ lastError' = "test case is already parameterized"
            /\ builders' = builders
       ELSE /\ lastError' = "none"
            /\ builders' = [builders EXCEPT
                              ![i].caseParams = [defined |-> TRUE, list |-> cs]]
  /\ UNCHANGED <<seen, tests, failedAt, runCases>>
  /\ UNCHANGED runVars

\* params(casesIterable): return this.cases(casesIterable)
builder_params(i, cs) == builder_cases(i, cs)

\* subcases(specs)
builder_subcases(i, g) ==
  /\ IF builders[i].subcaseParams # "undefined"
       THEN /\ lastError' = "test subcases are already parameterized"
            /\ builders' = builders
       ELSE /\ lastError' = "none"
            /\ builders' = [builders EXCEPT ![i].subcaseParams = g]
  /\ UNCHANGED <<seen, tests, failedAt, runCases>>
  /\ UNCHANGED runVars

\* new RunCaseSpecific(testPath, params, subParamGen, fixture, fn)
RunCaseSpecific(testPath, params, gen, body) ==
  [id |-> [test |-> testPath, params |-> extractPublicParams(params)],
   params |-> params,
   subParamGen |-> gen,
   fn |-> body]

\* iterate() that takes an empty case list for a missing one
IterateSource_emptyIsMissing(b) ==
  IF b.caseParams.defined /\ b.caseParams.list # <<>>
    THEN b.caseParams.list
    ELSE <<{}>>

\* the sequence iterate() loops over: this.caseParams || [{}], where an
\* empty array counts as defined
IterateSource(b) ==
  IF b.caseParams.defined THEN b.caseParams.list ELSE <<{}>>

\* iterate(), run to its end
builder_iterate(i) ==
  LET b == builders[i]
      src == IterateSource(b)
  IN
  /\ IF b.testFn = "undefined"
       THEN /\ lastError' = "No test function (.fn()) for test"
            /\ runCases' = runCases
       ELSE /\ lastError' = "none"
            /\ runCases' =
                 [of |-> i,
                  list |-> [k \in 1..Len(src) |->
                              RunCaseSpecific(tests[i], src[k],
                                              b.subcaseParams, b.testFn)]]
  /\ UNCHANGED <<seen, tests, builders, failedAt>>
  /\ UNCHANGED runVars

\* a group on which test("2") has just been called
InitBuilder ==
  /\ RunIdle
  /\ seen = {<<"2">>}
  /\ tests = <<<<"2">>>>
  /\ lastError = "none"
  /\ builders = <<NewTestBuilder>>
  /\ failedAt = -1
  /\ runCases = [of |-> 0, list |-> <<>>]

NextBuilder ==
  \E i \in 1..Len(builders) :
    \/ \E text \in DescTexts : builder_desc(i, text)
    \/ \E f \in Fns : builder_fn(i, f)
    \/ builder_unimplemented(i)
    \/ \E cs \in PlainCaseSeqs : builder_cases(i, cs)
    \/ \E cs \in PlainCaseSeqs : builder_params(i, cs)
    \/ \E g \in SubcaseGens : builder_subcases(i, g)
    \/ builder_iterate(i)

SpecBuilder == InitBuilder /\ [][NextBuilder]_vars

(***************************************************************************)
(* validate() and iterate() on a group whose declarations are complete     *)
(***************************************************************************)
RECURSIVE ValidateCases(_, _, _)
\* the loop of TestBuilder.validate over this.caseParams from record k on,
\* with the unique renderings seen so far: the assertion that fails, or "none"
ValidateCases(list, k, seenKeys) ==
  IF k > Len(list) THEN "none"
  ELSE IF ~stringifyPublicParams(list[k]).ok THEN "invalid params value"
  ELSE IF stringifyPublicParamsUniquely(list[k]) \in seenKeys
    THEN "Duplicate public test case params"
  ELSE ValidateCases(list, k + 1,
                     seenKeys \cup {stringifyPublicParamsUniquely(list[k])})

\* TestBuilder.validate that does not ask for a body
builder_validate_noBodyCheck(b) ==
  IF ~b.caseParams.defined THEN "none"
  ELSE ValidateCases(b.caseParams.list, 1, {})

\* TestBuilder.validate(): the assertion that fails, or "none"
builder_validate(b) ==
  IF b.testFn = "undefined" THEN "Test is missing .fn()"
  ELSE IF ~b.caseParams.defined THEN "none"
  ELSE ValidateCases(b.caseParams.list, 1, {})

RECURSIVE FirstInvalid(_, _)
\* the loop of TestGroup.validate from declaration i on: the declaration
\* whose validate() throws, 0 if none does
FirstInvalid(bs, i) ==
  IF i > Len(bs) THEN 0
  ELSE IF builder_validate(bs[i]) # "none" THEN i
  ELSE FirstInvalid(bs, i + 1)

\* TestGroup.validate()
validate ==
  LET k == FirstInvalid(builders, 1) IN
  /\ failedAt' = k
  /\ lastError' = IF k = 0 THEN "none" ELSE builder_validate(builders[k])
  /\ UNCHANGED <<seen, tests, builders, runCases>>
  /\ UNCHANGED runVars

\* the names of the declarations of the groups validate() is called on
DeclNames == {<<"2">>, <<"2", ",", "2">>}

\* the orders in which some of these names were declared
DeclOrders ==
  {ns \in UNION {[1..n -> DeclNames] : n \in 0..Cardinality(DeclNames)} :
     \A j, k \in 1..Len(ns) : ns[j] = ns[k] => j = k}

\* the states the builder calls fn() and cases() can leave a declaration in
DeclaredBuilders ==
  {[NewTestBuilder EXCEPT !.testFn = f, !.caseParams = c] :
     f \in {"undefined", "f1"},
     c \in {NewTestBuilder.caseParams}
             \cup {[defined |-> TRUE, list |-> cs] : cs \in CaseSeqs}}

\* a group after its test(), fn() and cases() calls
InitDecls ==
  /\ RunIdle
  /\ \E ns \in DeclOrders :
       /\ seen = {ns[k] : k \in 1..Len(ns)}
       /\ tests = [k \in 1..Len(ns) |-> split(ns[k], kPathSeparator)]
       /\ builders \in [1..Len(ns) -> DeclaredBuilders]
  /\ lastError = "none"
  /\ failedAt = -1
  /\ runCases = [of |-> 0, list |-> <<>>]

NextDecls ==
  \/ validate
  \/ \E i \in 1..Len(builders) : builder_iterate(i)

SpecDecls == InitDecls /\ [][NextDecls]_vars

(***************************************************************************)
(* Vocabulary of the properties                                            *)
(***************************************************************************)
\* run() has returned ("done") or an exception has left it ("aborted")
Terminated == pc \in {"done", "aborted"}

\* how often a step was invoked in a trial
StepCount(t, step) == Cardinality({i \in 1..Len(t) : t[i][1] = step})

\* the exception a trial ends with: the last one raised in it, "none" if none
TrialResult(t) ==
  LET raised == {i \in 1..Len(t) : t[i][2] # "ok"} IN
  IF raised = {} THEN "none"
  ELSE t[CHOOSE i \in raised : \A j \in raised : j <= i][2]

\* number of ended trials of the run with the given result
TrialsWith(result) ==
  Cardinality({i \in 1..Len(trials) : TrialResult(trials[i]) = result})

\* number of Recorder calls of a method, and of recorded events of a kind
CallCount(method) == Cardinality({i \in 1..Len(calls) : calls[i][1] = method})
EventCount(kind) ==
  Cardinality({i \in 1..Len(calls) : RecorderEvents(calls)[i] = kind})

\* number of fixture constructions attempted during the run
ConstructCalls ==
  Cardinality({i \in 1..Len(trials) : StepCount(trials[i], "construct") > 0})
    + (IF StepCount(cur, "construct") > 0 THEN 1 ELSE 0)

\* a trial that obeys the finalize contract
FinalizeContract(t) ==
  /\ Len(t) >= 1
  /\ t[1][1] = "construct"
  /\ StepCount(t, "construct") = 1
  /\ IF t[1][2] = "ok"
       THEN StepCount(t, "finalize") = 1
       ELSE Len(t) = 1

\* C1: in every trial, finalize() is invoked exactly once when the fixture
\* was constructed (whatever init() and the body did), and none of init(),
\* the body and finalize() is invoked when construction failed.
C1_FinalizeExactlyOnce ==
  /\ \A i \in 1..Len(trials) : FinalizeContract(trials[i])
  /\ StepCount(cur, "finalize") <= 1
  /\ (cur # <<>> /\ cur[1][2] # "ok") => Len(cur) = 1
  /\ pc = "catch" /\ Len(cur) > 1 => StepCount(cur, "finalize") = 1

\* a trial has ended in which construction succeeded, init() threw and
\* finalize() ran
C1_Witness ==
  \E i \in 1..Len(trials) :
    /\ Len(trials[i]) = 3
    /\ trials[i][1] = <<"construct", "ok">>
    /\ trials[i][2] = <<"init", "error">>
    /\ trials[i][3][1] = "finalize"

\* C2: in every execution of run(), whatever its outcome, the first Recorder
\* call is start() and the last one is finish(), each made exactly once.
C2_StartFirstFinishLast ==
  /\ calls # <<>> => calls[1][1] = "start"
  /\ CallCount("start") <= 1
  /\ Terminated =>
       /\ calls # <<>>
       /\ calls[Len(calls)][1] = "finish"
       /\ CallCount("start") = 1
       /\ CallCount("finish") = 1

C5_NoSkippedForZeroSubcases ==
  (subParamGen /\ pc = "done" /\ yielded = 0) => CallCount("skipped") = 0

\* C6: when the generator yields n >= 1 subcases and every one of their trials
\* ends with Skip, the Recorder records exactly one skipped, no threw and
\* exactly n debug events, between start and finish.
C6_AllSubcasesSkipped ==
  (subParamGen /\ pc = "done" /\ yielded >= 1 /\ TrialsWith("skip") = Len(trials))
    => /\ EventCount("skipped") = 1
       /\ EventCount("threw") = 0
       /\ EventCount("debug") = yielded
       /\ RecorderEvents(calls)[1] = "start"
       /\ RecorderEvents(calls)[Len(calls)] = "finish"
       /\ EventCount("start") = 1
       /\ EventCount("finish") = 1

\* a run over two subcases that both skipped has ended
C6_Witness ==
  /\ subParamGen
  /\ pc = "done"
  /\ yielded = 2
  /\ Len(trials) = 2
  /\ TrialsWith("skip") = 2

\* C7: once a subcase trial has ended otherwise than in Skip, the Recorder
\* never records a case-level skipped event, and at the end of the run each
\* skipped subcase has contributed one debug event and nothing else.
C7_PartialSkipNotElevated ==
  (subParamGen /\ TrialsWith("skip") < Len(trials))
    => /\ EventCount("skipped") = 0
       /\ pc = "done" => EventCount("debug") = TrialsWith("skip")

\* subcase 1 skipped, subcase 2 passed, the run has ended with one debug event
C7_Witness ==
  /\ subParamGen
  /\ pc = "done"
  /\ Len(trials) = 2
  /\ TrialResult(trials[1]) = "skip"
  /\ TrialResult(trials[2]) = "none"
  /\ EventCount("debug") = 1

\* C8: whatever construction, init(), the body and finalize() do, no exception
\* of a trial, Skip or ordinary, leaves run().
C8_NothingEscapesRun ==
  /\ escaped \notin {"skip", "error"}
  /\ pc = "aborted" => escaped = "gen"

\* a run without subcases has returned although its body threw and its
\* finalize() raised Skip
C8_Witness ==
  /\ ~subParamGen
  /\ pc = "done"
  /\ Len(trials) = 1
  /\ trials[1] = <<<<"construct", "ok">>, <<"init", "ok">>, <<"fn", "error">>,
                   <<"finalize", "skip">>>>

\* C9: in a subcase expansion every trial that ends with an ordinary
\* exception is reported as exactly one threw event and the loop goes on:
\* every subcase yielded gets its info note and its trial, and is counted in
\* totalCount, only the skipped ones in skipCount.
C9_FailureDoesNotAbortLoop ==
  /\ subParamGen => EventCount("threw") <= TrialsWith("error")
  /\ subParamGen /\ pc \in {"gen", "check", "finish", "done"} =>
       /\ EventCount("threw") = TrialsWith("error")
       /\ CallCount("info") = yielded
       /\ Len(trials) = yielded
       /\ totalCount = yielded
       /\ skipCount = TrialsWith("skip")
  /\ escaped # "error"

\* the first of two subcases failed and the second one was still run
C9_Witness ==
  /\ subParamGen
  /\ pc = "done"
  /\ Len(trials) = 2
  /\ TrialResult(trials[1]) = "error"
  /\ CallCount("info") = 2
  /\ EventCount("threw") >= 1

\* the joined paths of the stored declarations
StoredNames == {join(tests[i], kPathSeparator) : i \in 1..Len(tests)}

\* C10: the joined paths of the stored declarations are pairwise distinct,
\* and a test(name) call whose name is that of a stored declaration fails as
\* a duplicate and stores no declaration.
C10_UniqueNames ==
  /\ [](\A i, j \in 1..Len(tests) :
          join(tests[i], kPathSeparator) = join(tests[j], kPathSeparator)
            => i = j)
  /\ [][\A n \in StoredNames :
          test(n) => (lastError' = "Duplicate test name" /\ tests' = tests)]_vars

\* two declarations are stored and the last call was refused as a duplicate
C10_Witness ==
  /\ Len(tests) = 2
  /\ lastError = "Duplicate test name"

\* C11: a body is attached at most once and never replaced, fn() and
\* unimplemented() fail once a body is attached, cases() and params() fail
\* once cases are attached, subcases() fails once a generator is attached;
\* a failed call leaves the declaration as it was.
C11_AttachOnce ==
  [][\A i \in 1..Len(builders) :
       LET b == builders[i] IN
       /\ b.testFn # "undefined" => builders'[i].testFn = b.testFn
       /\ b.caseParams.defined => builders'[i].caseParams = b.caseParams
       /\ b.subcaseParams # "undefined" =>
            builders'[i].subcaseParams = b.subcaseParams
       /\ b.testFn # "undefined" =>
            /\ \A f \in Fns :
                 builder_fn(i, f) =>
                   /\ lastError' = "assert(this.testFn === undefined)"
                   /\ builders' = builders
            /\ builder_unimplemented(i) =>
                 /\ lastError' = "assert(this.testFn === undefined)"
                 /\ builders' = builders
       /\ b.caseParams.defined =>
            \A cs \in PlainCaseSeqs :
              (builder_cases(i, cs) \/ builder_params(i, cs)) =>
                /\ lastError' = "test case is already parameterized"
                /\ builders' = builders
       /\ b.subcaseParams # "undefined" =>
            \A g \in SubcaseGens :
              builder_subcases(i, g) =>
                /\ lastError' = "test subcases are already parameterized"
                /\ builders' = builders
    ]_vars

\* a second body was refused on a declaration that keeps its first one
C11_Witness ==
  /\ Len(builders) = 1
  /\ builders[1].testFn = "f1"
  /\ lastError = "assert(this.testFn === undefined)"

\* the unique-key renderings of the case records of b are pairwise distinct
DistinctKeys(b) ==
  \A j, k \in 1..Len(b.caseParams.list) :
    stringifyPublicParamsUniquely(b.caseParams.list[j])
      = stringifyPublicParamsUniquely(b.caseParams.list[k]) => j = k

\* a declaration as C12 wants it: a body, and distinct keys if it has cases
DeclSound(b) ==
  /\ b.testFn # "undefined"
  /\ b.caseParams.defined => DistinctKeys(b)

\* a declaration validate() accepts: moreover, every case record can be
\* rendered
DeclAccepted(b) ==
  /\ DeclSound(b)
  /\ b.caseParams.defined =>
       \A k \in 1..Len(b.caseParams.list) :
         stringifyPublicParams(b.caseParams.list[k]).ok

\* C12 as stated: validate() returns if and only if every declaration has a
\* body and, if it has cases, pairwise distinct unique keys; otherwise it
\* throws at the first declaration that has not.
C12_ValidateIffSound ==
  failedAt >= 0 =>
    /\ failedAt = 0 <=> \A i \in 1..Len(builders) : DeclSound(builders[i])
    /\ failedAt > 0 =>
         /\ ~DeclSound(builders[failedAt])
         /\ \A j \in 1..(failedAt - 1) : DeclSound(builders[j])

\* C12 amended: validate() returns if and only if every declaration has a
\* body and, if it has cases, case records that all have valid parameter
\* values and pairwise distinct unique keys; otherwise it throws at the first
\* declaration that has not.
C12_ValidateIffAccepted ==
  failedAt >= 0 =>
    /\ failedAt = 0 <=> \A i \in 1..Len(builders) : DeclAccepted(builders[i])
    /\ failedAt > 0 =>
         /\ ~DeclAccepted(builders[failedAt])
         /\ \A j \in 1..(failedAt - 1) : DeclAccepted(builders[j])

\* validate() threw at the second declaration, whose two case records differ
\* in a private key only
C12_Witness ==
  /\ failedAt = 2
  /\ lastError = "Duplicate public test case params"
  /\ builders[2].caseParams.list
       = <<{<<"x", "1">>, <<"_p", "0">>}, {<<"x", "1">>, <<"_p", "1">>}>>

\* C16: iterate() on a declaration with a body yields one Run Case with the
\* empty record when no cases are attached, and otherwise one Run Case per
\* attached case record in the attached order (none for an empty list), each
\* identified by the test path and the public view of its record; so does
\* every later iterate().
C16_OneRunCasePerCase ==
  runCases.of > 0 =>
    LET b == builders[runCases.of]
        L == runCases.list
    IN
    /\ b.testFn # "undefined"
    /\ IF b.caseParams.defined
         THEN /\ Len(L) = Len(b.caseParams.list)
              /\ \A k \in 1..Len(L) : L[k].params = b.caseParams.list[k]
         ELSE /\ Len(L) = 1
              /\ L[1].params = {}
    /\ \A k \in 1..Len(L) :
         /\ L[k].id.test = tests[runCases.of]
         /\ L[k].id.params = {kv \in L[k].params : kv[1] # "_p"}
         /\ L[k].fn = b.testFn

\* iterate() has yielded the two Run Cases of the cases x:2 and x:1, in this
\* order
C16_Witness ==
  /\ runCases.of = 1
  /\ Len(runCases.list) = 2
  /\ runCases.list[1].id.params = {<<"x", "2">>}
  /\ runCases.list[2].id.params = {<<"x", "1">>}
  /\ runCases.list[2].params = {<<"x", "1">>, <<"_p", "1">>}

\* a name that is its own percent-decoding
DecodeIdempotent(n) ==
  LET dn == decodeURIComponent(n) IN dn.ok /\ dn.str = n

\* C13: test(name) fails for every name that is not its own percent-decoding:
\* every name the group has recorded or stored is its own decoding, so no two
\* stored names have the same decoding.
C13_OnlyDecodedNames ==
  /\ \A n \in seen \cup StoredNames : DecodeIdempotent(n)
  /\ \A n, m \in StoredNames :
       decodeURIComponent(n).str = decodeURIComponent(m).str => n = m

\* a name was refused for not being its own decoding, on a group that
\* stores a declaration
C13_Witness ==
  /\ lastError = "Not decodeURIComponent-idempotent"
  /\ Len(tests) >= 1

\* C19: a failed test(name) leaves the group as it was, so the set of used
\* names is the set of the joined paths of the stored declarations.
C19_SeenIsStoredNames ==
  seen = StoredNames

\* the steps of a trial, as far as it has come, are in the order construct,
\* init, body, finalize: init only after construction succeeded, the body only
\* after init returned normally, finalize last and after init or the body
StepsInOrder(t) ==
  \A i \in 1..Len(t) :
    /\ t[i][1] = "construct" <=> i = 1
    /\ t[i][1] = "init" => i = 2 /\ t[1][2] = "ok"
    /\ t[i][1] = "fn" => i = 3 /\ t[2] = <<"init", "ok">>
    /\ t[i][1] = "finalize" =>
         /\ i = Len(t)
         /\ i >= 3
         /\ t[i-1][1] \in {"init", "fn"}
         /\ t[i-1][1] = "init" => t[i-1][2] # "ok"

\* a trial all of whose steps are over: construction failed, or finalize ran
TrialEnded(t) ==
  /\ Len(t) >= 1
  /\ \/ Len(t) = 1 /\ t[1][1] = "construct" /\ t[1][2] # "ok"
     \/ t[Len(t)][1] = "finalize"

\* number of outcome reports made to the Recorder: threw() and debug() calls
ReportCount == CallCount("threw") + CallCount("debug")

\* C14: within every trial the steps occur in the order construct, init, body,
\* finalize; init is invoked only after construction succeeded, the body only
\* after init returned normally, finalize after init or the body ended; and
\* the report of a trial (threw, or the Skip signal raised again) is made only
\* when the trial's steps are over, so never while a trial is in progress.
C14_StepOrder ==
  /\ StepsInOrder(cur)
  /\ \A i \in 1..Len(trials) : StepsInOrder(trials[i]) /\ TrialEnded(trials[i])
  /\ pc \in {"catch"} => TrialEnded(cur)
  /\ pc \in {"init", "fn", "finalize"} => cur # <<>> /\ ~TrialEnded(cur)
  /\ pc \notin {"construct", "init", "fn", "finalize", "catch"} => cur = <<>>
  /\ ReportCount <= Len(trials)

\* a run whose only trial skipped the body because init() threw, ran
\* finalize() and was then reported
C14_Witness ==
  /\ pc = "done"
  /\ ~subParamGen
  /\ trials = << << <<"construct", "ok">>, <<"init", "error">>,
                    <<"finalize", "ok">> >> >>
  /\ calls = << <<"start", "none">>, <<"threw", "error">>,
                <<"finish", "none">> >>

\* the methods of the Recorder that report the outcome of a trial
ReportMethods == {"threw", "debug"}

\* position in the Recorder log of the k-th info call
InfoPos(k) ==
  CHOOSE p \in 1..Len(calls) :
    /\ calls[p][1] = "info"
    /\ Cardinality({q \in 1..p : calls[q][1] = "info"}) = k

\* C17: in a subcase expansion the subcases are processed one at a time in
\* the order the generator yields them: exactly one info event per subcase,
\* emitted before its trial starts; the trial of a subcase, with its finalize
\* and its threw/debug report, is over before the info event of the next
\* subcase; and the case-level skipped event comes after the last subcase's
\* report and directly before finish.
C17_SubcasesInOrder ==
  subParamGen =>
    /\ CallCount("info") = yielded - (IF pc = "info" THEN 1 ELSE 0)
    /\ Len(trials) <= CallCount("info")
    /\ CallCount("info") <= Len(trials) + 1
    /\ pc \in {"init", "fn", "finalize", "catch"} =>
         /\ CallCount("info") = Len(trials) + 1
         /\ calls[Len(calls)][1] = "info"
    /\ pc \in {"gen", "info", "check", "finish", "done"} =>
         /\ cur = <<>>
         /\ Len(trials) = CallCount("info")
         /\ totalCount = Len(trials)
    /\ \A p \in 1..Len(calls) :
         /\ calls[p][1] = "start" <=> p = 1
         /\ calls[p][1] = "info" =>
              calls[p-1][1] \in {"start", "info"} \cup ReportMethods
         /\ calls[p][1] \in ReportMethods => calls[p-1][1] = "info"
         /\ calls[p][1] = "skipped" =>
              /\ p >= Len(calls) - 1
              /\ pc \in {"finish", "done"}
              /\ CallCount("info") = yielded
         /\ calls[p][1] = "finish" => p = Len(calls) /\ pc = "done"
    /\ \A k \in 1..Len(trials) :
         ~(k = Len(trials) /\ pc = "runcatch") =>
           /\ InfoPos(k) < Len(calls) /\ calls[InfoPos(k) + 1][1] \in ReportMethods
                <=> TrialResult(trials[k]) # "none"
           /\ k < Len(trials) =>
                /\ InfoPos(k + 1) > InfoPos(k)
                /\ InfoPos(k + 1) - InfoPos(k)
                     = (IF TrialResult(trials[k]) # "none" THEN 2 ELSE 1)

\* a finished run of two skipped subcases, with the case-level skip
C17_Witness ==
  /\ pc = "done"
  /\ subParamGen
  /\ calls = << <<"start", "none">>, <<"info", "none">>, <<"debug", "skip">>,
                <<"info", "none">>, <<"debug", "skip">>, <<"skipped", "skip">>,
                <<"finish", "none">> >>

IsReport(call) == call[1] \in ReportMethods

\* the outcome reports of the Recorder log, in order
Reports == SelectSeq(calls, IsReport)

\* the report a trial gets for the last exception raised in it: none when
\* nothing was raised; in a subcase expansion debug() for the Skip signal and
\* threw() otherwise; threw() in a run without subcases
ExpectedReport(t) ==
  LET r == TrialResult(t) IN
  IF r = "none" THEN <<>>
  ELSE IF subParamGen /\ r = "skip" THEN << <<"debug", "skip">> >>
  ELSE << <<"threw", r>> >>

RECURSIVE ExpectedReports(_)
ExpectedReports(k) ==
  IF k = 0 THEN <<>>
  ELSE ExpectedReports(k - 1) \o ExpectedReport(trials[k])

\* the ended trials whose report, if they get one, has been made
ReportedTrials == Len(trials) - (IF pc = "runcatch" THEN 1 ELSE 0)

\* C18: each trial produces at most one outcome report, determined by the
\* last exception raised in it: when init() or the body raises and finalize()
\* raises too, only finalize's exception is reported; in a subcase expansion
\* a body Skip followed by an ordinary failure of finalize() is reported with
\* threw and is not counted as a skipped subcase.
C18_LastExceptionReported ==
  /\ Reports = ExpectedReports(ReportedTrials)
  /\ subParamGen =>
       skipCount = Cardinality({k \in 1..ReportedTrials :
                                  TrialResult(trials[k]) = "skip"})

\* a finished subcase expansion whose only trial had the body raise Skip and
\* finalize() fail: reported with threw, no subcase counted as skipped
C18_Witness ==
  /\ pc = "done"
  /\ subParamGen
  /\ trials = << << <<"construct", "ok">>, <<"init", "ok">>, <<"fn", "skip">>,
                    <<"finalize", "error">> >> >>
  /\ calls = << <<"start", "none">>, <<"info", "none">>, <<"threw", "error">>,
                <<"finish", "none">> >>
  /\ skipCount = 0
  /\ totalCount = 1

\* the steps of a trial that raised an ordinary exception
OrdinaryFailures(t) == {i \in 1..Len(t) : t[i][2] = "error"}

====
